---- MODULE Spec2Model ----
(***************************************************************************)
(* The policy engine of the minion (minion/engine.go): updatePolicy        *)
(* compiles a spec and reconciles the connection, placement and container  *)
(* tables of the database view against it.                                 *)
(*                                                                         *)
(* The packages engine.go imports (stitch, db, join, util) are modelled    *)
(* from their contracts in the specification document (sections 3, 4.5     *)
(* and 6); everything under "minion/engine.go" follows the code.           *)
(***************************************************************************)
EXTENDS Integers, Sequences, FiniteSets, TLC

VARIABLES
    connection,   \* the view's connection table: row ID -> Connection
    placement,    \* the view's placement table:  row ID -> Placement
    container,    \* the view's container table:  row ID -> Container
    nextID,       \* the database's row ID allocator
    pre,          \* the three tables as they were when the last call began
    inserted,     \* <<table, id>> of every Insert* call of the last call
    removed,      \* <<table, id>> of every Remove call of the last call
    committed,    \* <<table, id>> of every Commit call of the last call
    matched,      \* <<row id, desired container>> pairs the last call's
                  \* container join made with rows that already existed
    joined,       \* the desired placement list the last call handed to
                  \* the placement join (<<>> when it made none)
    queried,      \* the desired containers queryContainers gave the last
                  \* call's container join (<<>> when it made none)
    ran,          \* the reconcilers the last call ran to completion
    role,         \* the role argument of the last call
    spec,         \* the spec argument of the last call
    outcome,      \* "none" | "invalid" | "done" | "panic"
    repeat,       \* the last call had the role and spec of the one before
    passes        \* number of updatePolicy calls so far

vars == <<connection, placement, container, nextID, pre, inserted, removed,
          committed, matched, joined, queried, ran, role, spec, outcome,
          repeat, passes>>

\* Number of updatePolicy calls in one run.
MaxPasses == 2

Master == "Master"
Worker == "Worker"
Roles == {Master, Worker}

PublicInternetLabel == "public"

-----------------------------------------------------------------------------
(* Values *)

Conn(from, to, lo, hi) ==
    [From |-> from, To |-> to, MinPort |-> lo, MaxPort |-> hi]

LabelRule(other, excl) ==
    [kind |-> "LabelRule", OtherLabel |-> other, Exclusive |-> excl]

MachineRule(excl, attr, val) ==
    [kind |-> "MachineRule", Exclusive |-> excl, Attribute |-> attr,
     Value |-> val]

PortRule(p) == [kind |-> "PortRule", Port |-> p]

Placement(tl, rule) == [TargetLabel |-> tl, Rule |-> rule]

\* A Go map[string]string is held as its graph, a set of <<key, value>>.
Container(cmd, img, env, labels) ==
    [Command |-> cmd, Image |-> img, Env |-> env, Labels |-> labels]

\* The labels the specs use, in the order sort.StringSlice puts them.
Lexicon == <<"a", "b", "c">>

LabelLess(s, t) ==
    \E i, j \in 1..Len(Lexicon) : Lexicon[i] = s /\ Lexicon[j] = t /\ i < j

SortLabels(labels) == SortSeq(labels, LabelLess)

-----------------------------------------------------------------------------
(* Helpers on sets and sequences *)

Range(s) == {s[i] : i \in 1..Len(s)}

Min(S) == CHOOSE m \in S : \A n \in S : m <= n

RECURSIVE AscSeq(_)
\* The IDs of S in increasing order (SelectFrom* returns rows so).
AscSeq(S) ==
    IF S = {} THEN <<>> ELSE <<Min(S)>> \o AscSeq(S \ {Min(S)})

RECURSIVE SetToSeq(_)
\* Some sequence holding each element of S once.
SetToSeq(S) ==
    IF S = {} THEN <<>>
    ELSE LET e == CHOOSE e \in S : TRUE IN <<e>> \o SetToSeq(S \ {e})

\* Every ordering of the elements of S.
Perms(S) ==
    {p \in [1..Cardinality(S) -> S] : \A e \in S : \E i \in DOMAIN p : p[i] = e}

\* A function extended (or overwritten) at one point.
Put(f, k, v) == [x \in DOMAIN f \cup {k} |-> IF x = k THEN v ELSE f[x]]

\* A function restricted to the points outside S.
Drop(f, S) == [x \in DOMAIN f \ S |-> f[x]]

-----------------------------------------------------------------------------
(* The imported packages, from their contracts *)

\* util.StrSliceEqual: element-wise equality of two string slices.
StrSliceEqual(x, y) ==
    /\ Len(x) = Len(y)
    /\ \A i \in 1..Len(x) : x[i] = y[i]

\* util.StrStrMapEqual: same keys, same value under each key.
StrStrMapEqual(x, y) ==
    /\ \A e \in x : e \in y
    /\ \A e \in y : e \in x

RECURSIVE EditDistance(_, _)
\* util.EditDistance: insertions, deletions and substitutions, one each,
\* that turn one label sequence into the other; a label is one token.
EditDistance(a, b) ==
    IF Len(a) = 0 THEN Len(b)
    ELSE IF Len(b) = 0 THEN Len(a)
    ELSE LET sub == EditDistance(Tail(a), Tail(b))
                        + (IF Head(a) = Head(b) THEN 0 ELSE 1)
             del == EditDistance(Tail(a), b) + 1
             ins == EditDistance(a, Tail(b)) + 1
         IN  Min({sub, del, ins})

\* No element takes part in two pairs.
OneToOne(M) == \A p, q \in M : (p[1] = q[1]) <=> (p[2] = q[2])

RECURSIVE JoinKeys(_, _, _)
\* The pairings the equality join may make over the given keys: under each
\* key a bijection on the overlap,chosen freely among the same-key elements.
JoinKeys(keys, lk, rk) ==
    IF keys = {} THEN {{}}
    ELSE LET k    == CHOOSE k \in keys : TRUE
             Lk   == {i \in DOMAIN lk : lk[i] = k}
             Rk   == {r \in DOMAIN rk : rk[r] = k}
             n    == IF Cardinality(Lk) < Cardinality(Rk)
                     THEN Cardinality(Lk) ELSE Cardinality(Rk)
             here == {M \in SUBSET (Lk \X Rk) :
                         OneToOne(M) /\ Cardinality(M) = n}
             rest == JoinKeys(keys \ {k}, lk, rk)
         IN  {m \cup r : m \in here, r \in rest}

\* join.HashJoin over the left keys lk (index -> key) and the right keys rk
\* (row ID -> key): every result it may return, as the pairs <<index, id>>
\* and the unmatched of each side.
HashJoin(lk, rk) ==
    LET keys == {lk[i] : i \in DOMAIN lk} \cup {rk[r] : r \in DOMAIN rk}
    IN  {[pairs  |-> M,
          lefts  |-> DOMAIN lk \ {p[1] : p \in M},
          rights |-> DOMAIN rk \ {p[2] : p \in M}] :
            M \in JoinKeys(keys, lk, rk)}

RECURSIVE Cost(_, _)
\* The summed score of a pairing.
Cost(M, sc) ==
    IF M = {} THEN 0
    ELSE LET p == CHOOSE p \in M : TRUE IN sc[p] + Cost(M \ {p}, sc)

\* join.Join over left indices, right row IDs and the score of each pair
\* (negative: the pair may not be made): every pairing with the most pairs
\* and, among those, the least summed score.
Join(lefts, rights, sc) ==
    LET ok    == {p \in lefts \X rights : sc[p] >= 0}
        Ms    == {M \in SUBSET ok : OneToOne(M)}
        most  == CHOOSE n \in {Cardinality(M) : M \in Ms} :
                    \A M \in Ms : Cardinality(M) <= n
        full  == {M \in Ms : Cardinality(M) = most}
        least == Min({Cost(M, sc) : M \in full})
        best  == {M \in full : Cost(M, sc) = least}
    IN  {[pairs  |-> M,
          lefts  |-> lefts \ {p[1] : p \in M},
          rights |-> rights \ {p[2] : p \in M}] : M \in best}

\* db.Database.Insert*: a new row handle with the next row ID.
DBInsert(db, table) ==
    [db EXCEPT !.nextID = @ + 1, !.ins = @ \cup {<<table, db.nextID>>}]

\* db.Database.Commit: the row's field values become the table's.
DBCommit(db, table, id, row) ==
    [db EXCEPT ![table] = Put(@, id, row), !.com = @ \cup {<<table, id>>}]

\* db.Database.Remove of every row in ids.
DBRemove(db, table, ids) ==
    [db EXCEPT ![table] = Drop(@, ids),
               !.rem = @ \cup {<<table, id>> : id \in ids}]

RECURSIVE InsertAll(_, _, _)
\* Insert* then Commit for each value of the sequence rows, in order.
InsertAll(db, table, rows) ==
    IF rows = <<>> THEN db
    ELSE InsertAll(DBCommit(DBInsert(db, table), table, db.nextID, Head(rows)),
                   table, Tail(rows))

\* db.Database.Insert* called n times: n new row handles.
InsertHandles(db, table, n) ==
    [db EXCEPT !.nextID = @ + n,
               !.ins = @ \cup {<<table, db.nextID + k>> : k \in 0..(n - 1)}]

RECURSIVE CommitPairs(_, _, _)
\* db.Database.Commit for each <<id, row>> of P.
CommitPairs(db, table, P) ==
    IF P = {} THEN db
    ELSE LET p == CHOOSE p \in P : TRUE
         IN  CommitPairs(DBCommit(db, table, p[1], p[2]), table, P \ {p})

\* db.Database.SelectFrom*(nil): the table's rows, by row ID.
SelectFrom(db, table) ==
    LET ids == AscSeq(DOMAIN db[table])
    IN  [k \in DOMAIN ids |-> db[table][ids[k]]]

\* stitch.New: the compiled spec, or an error.
Compile(text) == [err |-> ~text.valid, stitch |-> text]

-----------------------------------------------------------------------------
(* minion/engine.go *)

\* A mutant of DirectivePlacements: an empty attribute value is not skipped.
DirectivePlacements_KeepsEmptyValue(stitchP) ==
    LET rule == stitchP.Rule
    IN  {Placement(stitchP.TargetLabel, LabelRule(label, rule.Exclusive)) :
            label \in Range(rule.OtherLabels)}
        \cup
        {Placement(stitchP.TargetLabel,
                   MachineRule(rule.Exclusive, av[1], av[2])) :
            av \in rule.MachineAttributes}

\* The rules one stitch placement directive yields (the body of the loop).
DirectivePlacements(stitchP) ==
    LET rule == stitchP.Rule
    IN  {Placement(stitchP.TargetLabel, LabelRule(label, rule.Exclusive)) :
            label \in Range(rule.OtherLabels)}
        \cup
        {Placement(stitchP.TargetLabel,
                   MachineRule(rule.Exclusive, av[1], av[2])) :
            av \in {x \in rule.MachineAttributes : x[2] # ""}}

\* toDBPlacements: placementSet, then its elements as a slice.
toDBPlacements(stitchPlacements) ==
    SetToSeq(UNION {DirectivePlacements(stitchPlacements[i]) :
                        i \in DOMAIN stitchPlacements})

\* The PortRule placements of one connection (the body of the loop).
ConnectionPorts(conn) ==
    IF conn.From = PublicInternetLabel /\ conn.MinPort <= conn.MaxPort
    THEN [k \in 1..(conn.MaxPort - conn.MinPort + 1) |->
             Placement(conn.To, PortRule(conn.MinPort + k - 1))]
    ELSE <<>>

RECURSIVE makeConnectionPlacements(_)
makeConnectionPlacements(conns) ==
    IF conns = <<>> THEN <<>>
    ELSE ConnectionPorts(Head(conns)) \o makeConnectionPlacements(Tail(conns))

\* The key function of updatePlacements.
key(pVal) == <<pVal.TargetLabel, pVal.Rule>>

\* The placement list updatePlacements hands to the join.
DesiredPlacements(db, stitch) ==
    toDBPlacements(stitch.placements)
        \o makeConnectionPlacements(SelectFrom(db, "connection"))

\* updatePlacements: every view it may leave.
updatePlacements(db, stitch) ==
    LET desired == DesiredPlacements(db, stitch)
        lk      == [i \in DOMAIN desired |-> key(desired[i])]
        rk      == [id \in DOMAIN db.placement |-> key(db.placement[id])]
        Apply(j) ==
            LET add   == AscSeq(j.lefts)
                added == InsertAll(db, "placement",
                                   [k \in DOMAIN add |-> desired[add[k]]])
                done  == DBRemove(added, "placement", j.rights)
            IN  [done EXCEPT !.joined = desired,
                             !.ran = @ \cup {"placements"}]
    IN  {Apply(j) : j \in HashJoin(lk, rk)}

\* The key function of updateConnections.
dbcKey(c) == Conn(c.From, c.To, c.MinPort, c.MaxPort)

\* A mutant of ConnectionRow: MaxPort is not copied (it takes MinPort).
ConnectionRow_DropsMaxPort(stitchc) ==
    Conn(stitchc.From, stitchc.To, stitchc.MinPort, stitchc.MinPort)

\* The fields updateConnections writes to the row paired with stitchc.
ConnectionRow(stitchc) ==
    Conn(stitchc.From, stitchc.To, stitchc.MinPort, stitchc.MaxPort)

\* updateConnections: every view it may leave.
updateConnections(db, stitch) ==
    LET scs == stitch.connections
        vcs == db.connection
        lk  == [i \in DOMAIN scs |-> scs[i]]
        rk  == [id \in DOMAIN vcs |-> dbcKey(vcs[id])]
        Apply(j) ==
            LET gone  == DBRemove(db, "connection", j.rights)
                new   == AscSeq(j.lefts)
                fresh == InsertHandles(gone, "connection", Len(new))
                pairs == j.pairs \cup
                         {<<new[k], gone.nextID + k - 1>> : k \in DOMAIN new}
                rows  == {<<p[2], ConnectionRow(scs[p[1]])>> : p \in pairs}
                done  == CommitPairs(fresh, "connection", rows)
            IN  [done EXCEPT !.ran = @ \cup {"connections"}]
    IN  {Apply(j) : j \in HashJoin(lk, rk)}

\* The container IDs the spec declares.
DeclaredIDs(stitch) == {stitch.containers[i].ID : i \in DOMAIN stitch.containers}

\* The labels of the spec's label map.
LabelKeys(stitch) == {l[1] : l \in stitch.labels}

\* containers[id] is nil for an ID of the label map: the append panics.
queryContainersPanics(stitch) ==
    \E l \in stitch.labels : \E id \in l[2] : id \notin DeclaredIDs(stitch)

\* A mutant of queryContainers: the label map is not merged in.
queryContainers_NoLabels(stitch, labelOrder, idOrder) ==
    LET decl(id) == CHOOSE c \in Range(stitch.containers) : c.ID = id
    IN  [k \in DOMAIN idOrder |->
            Container(decl(idOrder[k]).Command, decl(idOrder[k]).Image,
                      decl(idOrder[k]).Env, <<>>)]

\* queryContainers, with the label map ranged over in labelOrder and the
\* containers map in idOrder.
queryContainers(stitch, labelOrder, idOrder) ==
    LET decl(id)   == CHOOSE c \in Range(stitch.containers) : c.ID = id
        ids(label) == (CHOOSE l \in stitch.labels : l[1] = label)[2]
        labels(id) == SelectSeq(labelOrder, LAMBDA l : id \in ids(l))
    IN  [k \in DOMAIN idOrder |->
            Container(decl(idOrder[k]).Command, decl(idOrder[k]).Image,
                      decl(idOrder[k]).Env, labels(idOrder[k]))]

\* A mutant of score: any difference in Labels makes a pair incompatible.
score_LabelsMustMatch(left, right) ==
    IF \/ left.Image # right.Image
       \/ ~StrSliceEqual(left.Command, right.Command)
       \/ ~StrStrMapEqual(left.Env, right.Env)
       \/ EditDistance(left.Labels, right.Labels) # 0
    THEN -1
    ELSE 0

\* A mutant of score: the Image is not compared.
score_IgnoresImage(left, right) ==
    IF \/ ~StrSliceEqual(left.Command, right.Command)
       \/ ~StrStrMapEqual(left.Env, right.Env)
    THEN -1
    ELSE EditDistance(left.Labels, right.Labels)

\* A mutant of score: every compatible pair costs the same.
score_FlatCost(left, right) ==
    IF \/ left.Image # right.Image
       \/ ~StrSliceEqual(left.Command, right.Command)
       \/ ~StrStrMapEqual(left.Env, right.Env)
    THEN -1
    ELSE 0

\* A mutant of score: the Env is not compared.
score_IgnoresEnv(left, right) ==
    IF \/ left.Image # right.Image
       \/ ~StrSliceEqual(left.Command, right.Command)
    THEN -1
    ELSE EditDistance(left.Labels, right.Labels)

\* The score function of updateContainers.
score(left, right) ==
    IF \/ left.Image # right.Image
       \/ ~StrSliceEqual(left.Command, right.Command)
       \/ ~StrStrMapEqual(left.Env, right.Env)
    THEN -1
    ELSE EditDistance(left.Labels, right.Labels)

\* A mutant of CommittedContainer: the Labels are committed as merged.
CommittedContainer_Unsorted(newc) ==
    Container(newc.Command, newc.Image, newc.Env, newc.Labels)

\* What updateContainers commits to the row paired with newc.
CommittedContainer(newc) ==
    Container(newc.Command, newc.Image, newc.Env, SortLabels(newc.Labels))

\* A mutant of ReconcileContainers: every row is replaced, none is paired.
ReconcileContainers_NoPairs(db, desired) ==
    LET gone  == DBRemove(db, "container", DOMAIN db.container)
        fresh == InsertHandles(gone, "container", Len(desired))
        rows2 == {<<gone.nextID + k - 1, CommittedContainer(desired[k])>> :
                     k \in DOMAIN desired}
        done  == CommitPairs(fresh, "container", rows2)
    IN  {[done EXCEPT !.matched = {},
                      !.queried = desired,
                      !.ran = @ \cup {"containers"}]}

\* updateContainers over one result of queryContainers.
ReconcileContainers(db, desired) ==
    LET rows == DOMAIN db.container
        sc   == [p \in (DOMAIN desired) \X rows |->
                    score(desired[p[1]], db.container[p[2]])]
        Apply(j) ==
            LET gone  == DBRemove(db, "container", j.rights)
                new   == AscSeq(j.lefts)
                fresh == InsertHandles(gone, "container", Len(new))
                pairs == j.pairs \cup
                         {<<new[k], gone.nextID + k - 1>> : k \in DOMAIN new}
                rows2 == {<<p[2], CommittedContainer(desired[p[1]])>> :
                             p \in pairs}
                done  == CommitPairs(fresh, "container", rows2)
            IN  [done EXCEPT
                    !.matched = {<<p[2], desired[p[1]]>> : p \in j.pairs},
                    !.queried = desired,
                    !.ran = @ \cup {"containers"}]
    IN  {Apply(j) : j \in Join(DOMAIN desired, rows, sc)}

\* updateContainers: every view it may leave; a panic in queryContainers
\* ends the call where it stands.
updateContainers(db, stitch) ==
    IF queryContainersPanics(stitch)
    THEN {[db EXCEPT !.outcome = "panic"]}
    ELSE UNION {ReconcileContainers(db, desired) :
                    desired \in {queryContainers(stitch, lo, io) :
                                    lo \in Perms(LabelKeys(stitch)),
                                    io \in Perms(DeclaredIDs(stitch))}}

\* The reconcilers updatePolicy runs on a compiled spec, in its order.
Reconcile(db, r, stitch) ==
    LET conns == updateConnections(db, stitch)
    IN  IF r = Master
        THEN UNION {UNION {updateContainers(d2, stitch) :
                               d2 \in updatePlacements(d1, stitch)} :
                        d1 \in conns}
        ELSE conns

\* A mutant of updatePolicy: the compile error is not checked.
updatePolicy_IgnoresErr(db, r, text) ==
    Reconcile(db, r, Compile(text).stitch)

\* A mutant of updatePolicy: every role reconciles all three tables.
updatePolicy_NoRoleGate(db, r, text) ==
    IF Compile(text).err
    THEN {[db EXCEPT !.outcome = "invalid"]}
    ELSE Reconcile(db, Master, Compile(text).stitch)

\* A mutant of updatePolicy: placements are reconciled before connections.
updatePolicy_PlacementsFirst(db, r, text) ==
    LET stitch == Compile(text).stitch
    IN  IF Compile(text).err
        THEN {[db EXCEPT !.outcome = "invalid"]}
        ELSE IF r = Master
        THEN UNION {UNION {updateContainers(d2, stitch) :
                               d2 \in updateConnections(d1, stitch)} :
                        d1 \in updatePlacements(db, stitch)}
        ELSE updateConnections(db, stitch)

\* updatePolicy: every view it may leave.
updatePolicy(db, r, text) ==
    LET compiled == Compile(text)
    IN  IF compiled.err
        THEN {[db EXCEPT !.outcome = "invalid"]}
        ELSE Reconcile(db, r, compiled.stitch)

-----------------------------------------------------------------------------
(* Inputs: the spec texts and the views a run starts from *)

Public == PublicInternetLabel

\* The connection lists the specs declare.
SpecConnections ==
    { <<>>,
      <<Conn(Public, "web", 80, 82), Conn("db", "web", 80, 80)>>,
      <<Conn(Public, "web", 81, 82), Conn(Public, "web", 82, 83),
        Conn("db", "web", 80, 80)>> }

Directive(target, others, excl, attrs) ==
    [TargetLabel |-> target,
     Rule |-> [OtherLabels |-> others, Exclusive |-> excl,
               MachineAttributes |-> attrs]]

\* The placement directives the specs declare.
SpecPlacements ==
    { <<>>,
      <<Directive("web", <<"db">>, TRUE,
                  {<<"region", "">>, <<"size", "m4">>}),
        Directive("web", <<"db", "db">>, TRUE, {<<"size", "m4">>})>> }

Decl(id, cmd, img, env) ==
    [ID |-> id, Command |-> cmd, Image |-> img, Env |-> env]

ContainerSpec(decls, labels) == [containers |-> decls, labels |-> labels]

\* The container declarations and label maps the specs declare; every
\* label names declared IDs only.
SpecContainers ==
    { ContainerSpec(<<>>, {}),
      ContainerSpec(<<Decl(1, <<>>, "nginx", {})>>,
                    {<<"a", {1}>>, <<"c", {1}>>}),
      ContainerSpec(<<Decl(1, <<>>, "nginx", {}), Decl(2, <<>>, "nginx", {})>>,
                    {<<"a", {1}>>, <<"b", {1, 2}>>, <<"c", {2}>>}),
      ContainerSpec(<<Decl(1, <<>>, "redis", {}),
                      Decl(2, <<"run">>, "nginx", {})>>,
                    {<<"a", {1, 2}>>}),
      ContainerSpec(<<Decl(1, <<>>, "nginx", {<<"K", "v">>}),
                      Decl(2, <<>>, "redis", {})>>,
                    {<<"a", {1}>>, <<"b", {1, 2}>>}),
      ContainerSpec(<<Decl(1, <<>>, "nginx", {}), Decl(2, <<>>, "nginx", {})>>,
                    {<<"a", {1, 2}>>}) }

\* A label map that names an ID no declaration has.
UndeclaredContainers ==
    { ContainerSpec(<<Decl(1, <<>>, "nginx", {})>>,
                    {<<"a", {1}>>, <<"c", {7}>>}) }

Text(conns, places, cs) ==
    [valid |-> TRUE, connections |-> conns, placements |-> places,
     containers |-> cs.containers, labels |-> cs.labels]

\* A text the compiler rejects.
InvalidText ==
    [valid |-> FALSE, connections |-> <<>>, placements |-> <<>>,
     containers |-> <<>>, labels |-> {}]

\* The texts that compile, as the compiler can produce them: every
\* connection list with every directive list, and every container
\* declaration (the container reconciler reads neither of the former).
ValidTexts ==
    {Text(c, p, ContainerSpec(<<>>, {})) :
        c \in SpecConnections, p \in SpecPlacements}
    \cup
    {Text(<<Conn(Public, "web", 80, 82), Conn("db", "web", 80, 80)>>, <<>>, k) :
        k \in SpecContainers}

SpecTexts == ValidTexts \cup {InvalidText}

\* Compiled specs whose label map names an undeclared ID.
UndeclaredTexts ==
    {Text(c, <<>>, k) : c \in SpecConnections, k \in UndeclaredContainers}

\* The connection table a run starts from.
InitConnections ==
    { <<Conn(Public, "web", 80, 82), Conn("db", "web", 80, 80),
        Conn("db", "web", 80, 80)>> }

\* The placement tables a run may start from.
InitPlacements ==
    { <<>>,
      <<Placement("web", PortRule(80)), Placement("web", PortRule(84)),
        Placement("web", MachineRule(TRUE, "region", "")),
        Placement("web", LabelRule("db", TRUE))>> }

\* The container tables a run may start from.
InitContainers ==
    { <<>>,
      <<Container(<<>>, "nginx", {}, <<"a", "b">>)>>,
      <<Container(<<>>, "nginx", {}, <<"a", "b">>),
        Container(<<>>, "nginx", {}, <<"b", "c">>),
        Container(<<>>, "redis", {}, <<"c", "a">>)>> }

\* Rows of the sequence rows under the IDs first, first + 1, ...
Table(rows, first) ==
    [id \in first..(first + Len(rows) - 1) |-> rows[id - first + 1]]

-----------------------------------------------------------------------------
(* The state machine *)

Tables == [connection |-> connection, placement |-> placement,
           container |-> container]

\* The view as a call finds it, with nothing yet logged.
View ==
    [connection |-> connection, placement |-> placement,
     container |-> container, nextID |-> nextID,
     ins |-> {}, rem |-> {}, com |-> {}, matched |-> {}, joined |-> <<>>,
     queried |-> <<>>, ran |-> {}, outcome |-> "done"]

Init ==
    \E cs \in InitConnections, ps \in InitPlacements, ks \in InitContainers :
        /\ connection = Table(cs, 1)
        /\ placement = Table(ps, 1 + Len(cs))
        /\ container = Table(ks, 1 + Len(cs) + Len(ps))
        /\ nextID = 1 + Len(cs) + Len(ps) + Len(ks)
        /\ pre = [connection |-> Table(cs, 1),
                  placement |-> Table(ps, 1 + Len(cs)),
                  container |-> Table(ks, 1 + Len(cs) + Len(ps))]
        /\ inserted = {}
        /\ removed = {}
        /\ committed = {}
        /\ matched = {}
        /\ joined = <<>>
        /\ queried = <<>>
        /\ ran = {}
        /\ role = Worker
        /\ spec = InvalidText
        /\ outcome = "none"
        /\ repeat = FALSE
        /\ passes = 0

\* One call updatePolicy(view, r, text).
Call(r, text) ==
    /\ passes < MaxPasses
    /\ \E d \in updatePolicy(View, r, text) :
        /\ connection' = d.connection
        /\ placement' = d.placement
        /\ container' = d.container
        /\ nextID' = d.nextID
        /\ inserted' = d.ins
        /\ removed' = d.rem
        /\ committed' = d.com
        /\ matched' = d.matched
        /\ joined' = d.joined
        /\ queried' = d.queried
        /\ ran' = d.ran
        /\ outcome' = d.outcome
    /\ pre' = Tables
    /\ role' = r
    /\ spec' = text
    /\ repeat' = (passes > 0 /\ r = role /\ text = spec)
    /\ passes' = passes + 1

\* A call with a text the compiler accepts or rejects.
UpdatePolicy == \E r \in Roles, text \in SpecTexts : Call(r, text)

\* A call with a compiled spec whose label map names an undeclared ID.
UpdatePolicyUndeclared == \E r \in Roles, text \in UndeclaredTexts : Call(r, text)

Next == UpdatePolicy

Spec == Init /\ [][Next]_vars

NextAnyIDs == UpdatePolicy \/ UpdatePolicyUndeclared

SpecAnyIDs == Init /\ [][NextAnyIDs]_vars

-----------------------------------------------------------------------------
(* Vocabulary of the properties *)

\* A call has been made and its text compiled.
Compiled == passes > 0 /\ ~Compile(spec).err

\* The row IDs of one table among the Insert*, Remove and Commit calls.
Ins(table) == {e[2] : e \in {x \in inserted : x[1] = table}}
Rem(table) == {e[2] : e \in {x \in removed : x[1] = table}}
Com(table) == {e[2] : e \in {x \in committed : x[1] = table}}

\* The (From, To, MinPort, MaxPort) tuples of a connection table.
ConnTuples(tbl) ==
    {<<tbl[id].From, tbl[id].To, tbl[id].MinPort, tbl[id].MaxPort>> :
        id \in DOMAIN tbl}

\* The tuples of the last spec's connection list.
SpecTuples ==
    {<<c.From, c.To, c.MinPort, c.MaxPort>> : c \in Range(spec.connections)}

\* The (TargetLabel, Rule) pairs of a placement table.
PlacementKeys(tbl) == {<<tbl[id].TargetLabel, tbl[id].Rule>> : id \in DOMAIN tbl}

\* The PortRule rows of a placement table.
PortRows(tbl) == {id \in DOMAIN tbl : tbl[id].Rule.kind = "PortRule"}

\* The (label, port) pairs the public connections of a table expose.
ExposedPorts(tbl) ==
    UNION {{<<tbl[id].To, p>> : p \in tbl[id].MinPort..tbl[id].MaxPort} :
              id \in {i \in DOMAIN tbl : tbl[i].From = PublicInternetLabel}}

\* Two containers with the same Image, Command and Env.
SameContent(x, y) ==
    /\ x.Image = y.Image
    /\ x.Command = y.Command
    /\ x.Env = y.Env

\* The labels the last spec gives the declaration decl.
LabelsOf(decl) == {l[1] : l \in {x \in spec.labels : decl.ID \in x[2]}}

\* The sorted label sequence over a set of labels.
SortedLabels(S) == SelectSeq(Lexicon, LAMBDA l : l \in S)

\* A sequence in nondecreasing label order.
IsSorted(labels) ==
    \A i, j \in DOMAIN labels : i < j => ~LabelLess(labels[j], labels[i])

-----------------------------------------------------------------------------
(* Properties *)

\* C1: a call whose spec text fails to compile issues no insert, commit or
\* remove and leaves the connection, placement and container tables exactly
\* as they were, whatever the role and the starting view.
C1_InvalidSpecLeavesView ==
    (passes > 0 /\ Compile(spec).err) =>
        /\ inserted = {} /\ removed = {} /\ committed = {}
        /\ Tables = pre

\* A Master call with a text that does not compile, on a view with rows in
\* every table.
C1_Witness ==
    /\ passes > 0 /\ Compile(spec).err /\ role = Master
    /\ DOMAIN pre.connection # {}
    /\ DOMAIN pre.placement # {}
    /\ DOMAIN pre.container # {}

\* C2: a Worker call with a compilable spec issues no insert, commit or
\* remove against the placement and container tables and leaves both as they
\* were; the connection table is still reconciled to the spec.
C2_WorkerTouchesConnectionsOnly ==
    (Compiled /\ role = Worker) =>
        /\ placement = pre.placement
        /\ container = pre.container
        /\ \A e \in inserted \cup removed \cup committed : e[1] = "connection"
        /\ ConnTuples(connection) = SpecTuples

\* A Worker call whose spec declares containers, on a view with placement
\* and container rows, that removed a connection row.
C2_Witness ==
    /\ Compiled /\ role = Worker
    /\ spec.containers # <<>>
    /\ DOMAIN pre.placement # {} /\ DOMAIN pre.container # {}
    /\ Rem("connection") # {}
    /\ connection # pre.connection

\* C3: a call that repeats the role and the spec of the call before it
\* issues no insert and no remove, and leaves every row of every table with
\* the field values it had.
C3_Idempotent ==
    (Compiled /\ repeat /\ outcome = "done") =>
        /\ inserted = {} /\ removed = {}
        /\ Tables = pre

\* C4: after a call with a compilable spec the connection rows match the
\* spec's connection list: rows with an undesired tuple were removed,
\* desired tuples absent from the view were inserted and committed, and the
\* table holds one row per desired tuple and nothing else.
C4_ConnectionsMatchSpec ==
    Compiled =>
        /\ \A id \in DOMAIN pre.connection :
              dbcKey(pre.connection[id]) \notin Range(spec.connections) =>
                  id \in Rem("connection") /\ id \notin DOMAIN connection
        /\ \A c \in Range(spec.connections) :
              <<c.From, c.To, c.MinPort, c.MaxPort>>
                    \notin ConnTuples(pre.connection) =>
                  \E id \in Ins("connection") \cap Com("connection") :
                      id \in DOMAIN connection /\ connection[id] = c
        /\ ConnTuples(connection) = SpecTuples
        /\ Cardinality(DOMAIN connection) = Cardinality(SpecTuples)

\* A call that removed an undesired connection row and inserted a desired one.
C4_Witness ==
    /\ Compiled
    /\ Rem("connection") # {}
    /\ Ins("connection") # {}
    /\ \E id \in DOMAIN pre.connection : id \in DOMAIN connection

\* C5: at the end of a Master call the PortRule placements of the view are
\* those of the connection table as that same call left it.
C5_PortRulesFollowConnections ==
    (Compiled /\ role = Master) =>
        {<<placement[id].TargetLabel, placement[id].Rule.Port>> :
            id \in PortRows(placement)} = ExposedPorts(connection)

\* A Master call in which the port range of the public connection changed:
\* a PortRule of the old range was removed and one of the new range inserted.
C5_Witness ==
    /\ Compiled /\ role = Master
    /\ ExposedPorts(pre.connection) # ExposedPorts(connection)
    /\ \E id \in Rem("placement") :
          /\ pre.placement[id].Rule.kind = "PortRule"
          /\ <<pre.placement[id].TargetLabel, pre.placement[id].Rule.Port>>
                \in ExposedPorts(pre.connection)
    /\ \E id \in Ins("placement") :
          /\ id \in PortRows(placement)
          /\ <<placement[id].TargetLabel, placement[id].Rule.Port>>
                \notin ExposedPorts(pre.connection)

\* C6: after a Master call there is exactly one PortRule row for each port
\* of each public connection row, and no PortRule row for anything else.
C6_OnePortRulePerPort ==
    (Compiled /\ role = Master) =>
        /\ \A e \in ExposedPorts(connection) :
              Cardinality({id \in PortRows(placement) :
                  /\ placement[id].TargetLabel = e[1]
                  /\ placement[id].Rule.Port = e[2]}) = 1
        /\ \A id \in PortRows(placement) :
              <<placement[id].TargetLabel, placement[id].Rule.Port>>
                  \in ExposedPorts(connection)

\* C7: the placements derived in a Master call hold each (TargetLabel, Rule)
\* once when they are handed to the join, and the view then holds exactly
\* one placement row per (TargetLabel, Rule).
C7_PlacementsDeduplicated ==
    (Compiled /\ role = Master) =>
        /\ \A i, j \in DOMAIN joined : joined[i] = joined[j] => i = j
        /\ \A i, j \in DOMAIN placement :
              placement[i] = placement[j] => i = j

\* The row the container reconciler leaves for the declaration decl.
DesiredRow(decl) ==
    Container(decl.Command, decl.Image, decl.Env, SortedLabels(LabelsOf(decl)))

\* The existing row r and the declaration d have the same Image, Command
\* and Env, and no other existing row or declaration shares them.
SolePair(r, d) ==
    /\ SameContent(pre.container[r], d)
    /\ \A r2 \in DOMAIN pre.container \ {r} : ~SameContent(pre.container[r2], d)
    /\ \A d2 \in Range(spec.containers) \ {d} : ~SameContent(pre.container[r], d2)

\* C8: in a Master call an existing container row and a desired container
\* with the same Image, Command and Env, competing with no other candidate,
\* are paired: the row stays under its ID, its Labels become the desired
\* labels sorted, and the pair costs neither a remove nor an insert.
C8_LabelChangeKeepsRow ==
    (Compiled /\ role = Master) =>
        \A r \in DOMAIN pre.container, d \in Range(spec.containers) :
            SolePair(r, d) =>
                /\ r \notin Rem("container")
                /\ r \in DOMAIN container
                /\ container[r] = DesiredRow(d)
                /\ \A id \in Ins("container") : ~SameContent(container[id], d)

\* A Master call that paired a row with a desired container of other labels.
C8_Witness ==
    /\ Compiled /\ role = Master
    /\ \E r \in DOMAIN pre.container, d \in Range(spec.containers) :
          /\ SolePair(r, d)
          /\ Range(pre.container[r].Labels) # LabelsOf(d)
          /\ r \in DOMAIN container
          /\ container[r].Labels # pre.container[r].Labels
          /\ Ins("container") = {} /\ Rem("container") = {}

\* C9: a Master call never pairs an existing container row with a desired
\* container of another Image, Command or Env; an existing row that no
\* desired container is compatible with is removed, and a desired container
\* that no existing row is compatible with is inserted as a new row.
C9_IncompatibleNeverPaired ==
    (Compiled /\ role = Master) =>
        /\ \A m \in matched :
              /\ m[1] \in DOMAIN pre.container
              /\ pre.container[m[1]].Image = m[2].Image
              /\ pre.container[m[1]].Command = m[2].Command
              /\ pre.container[m[1]].Env = m[2].Env
        /\ \A r \in DOMAIN pre.container :
              (\A d \in Range(spec.containers) :
                    ~SameContent(pre.container[r], d)) =>
                  r \in Rem("container") /\ r \notin DOMAIN container
        /\ \A d \in Range(spec.containers) :
              (\A r \in DOMAIN pre.container :
                    ~SameContent(pre.container[r], d)) =>
                  \E id \in Ins("container") :
                      id \in DOMAIN container /\ container[id] = DesiredRow(d)

\* A Master call that removed a row and inserted a desired container with
\* the same labels, Image and Command but another Env, while pairing another.
C9_Witness ==
    /\ Compiled /\ role = Master
    /\ \E r \in Rem("container"), id \in Ins("container") :
          /\ pre.container[r].Labels = container[id].Labels
          /\ pre.container[r].Image = container[id].Image
          /\ pre.container[r].Command = container[id].Command
          /\ pre.container[r].Env # container[id].Env

\* The reconcilers a role's call runs.
Required(r) ==
    IF r = Master THEN {"connections", "placements", "containers"}
    ELSE {"connections"}

\* C10: every call either mutates nothing or runs every reconciler of its
\* role to completion.
C10_AllOrNothing ==
    passes > 0 =>
        \/ /\ ran = {}
           /\ inserted = {} /\ removed = {} /\ committed = {}
           /\ Tables = pre
        \/ ran = Required(role)

\* A MachineRule placement with an empty Value.
EmptyMachineRule(p) == p.Rule.kind = "MachineRule" /\ p.Rule.Value = ""

\* C11: after a Master call no placement row is a MachineRule with an empty
\* Value: a directive's empty attribute value yields no row and a row of
\* that shape found in the view is removed.
C11_NoEmptyMachineRule ==
    (Compiled /\ role = Master) =>
        \A id \in DOMAIN placement : ~EmptyMachineRule(placement[id])

\* A Master call whose spec has a directive with an empty attribute value,
\* on a view that held an empty-valued MachineRule row, which it removed.
C11_Witness ==
    /\ Compiled /\ role = Master
    /\ \E i \in DOMAIN spec.placements :
          \E av \in spec.placements[i].Rule.MachineAttributes : av[2] = ""
    /\ \E id \in Rem("placement") : EmptyMachineRule(pre.placement[id])

\* The (TargetLabel, Rule) pairs the last spec's directives ask for.
DirectiveKeys ==
    UNION {{<<spec.placements[i].TargetLabel,
              LabelRule(l, spec.placements[i].Rule.Exclusive)>> :
                l \in Range(spec.placements[i].Rule.OtherLabels)}
           \cup
           {<<spec.placements[i].TargetLabel,
              MachineRule(spec.placements[i].Rule.Exclusive, av[1], av[2])>> :
                av \in {x \in spec.placements[i].Rule.MachineAttributes :
                            x[2] # ""}} :
              i \in DOMAIN spec.placements}

\* The (TargetLabel, Rule) pairs desired at the end of a Master call.
DesiredKeys ==
    DirectiveKeys \cup {<<e[1], PortRule(e[2])>> : e \in ExposedPorts(connection)}

\* C12: a Master call leaves every placement row whose (TargetLabel, Rule)
\* is desired untouched (no remove, no commit, same fields), removes every
\* row whose key is not desired, inserts and commits every desired key the
\* view lacked, and ends with the view's keys equal to the desired keys.
C12_PlacementsOnlyDifference ==
    (Compiled /\ role = Master) =>
        /\ \A id \in DOMAIN pre.placement :
              IF key(pre.placement[id]) \in DesiredKeys
              THEN /\ id \notin Rem("placement")
                   /\ id \notin Com("placement")
                   /\ id \in DOMAIN placement
                   /\ placement[id] = pre.placement[id]
              ELSE id \in Rem("placement") /\ id \notin DOMAIN placement
        /\ \A k \in DesiredKeys \ PlacementKeys(pre.placement) :
              \E id \in Ins("placement") \cap Com("placement") :
                  id \in DOMAIN placement /\ key(placement[id]) = k
        /\ PlacementKeys(placement) = DesiredKeys

\* The rows of a table.
Rows(tbl) == {tbl[id] : id \in DOMAIN tbl}

\* C13: after a Master call with a spec that compiles, the container rows,
\* as a multiset of (Command, Image, Env, Labels), are the desired rows of
\* the spec's declarations (each with its labels, sorted): every desired row
\* is there as often as it is declared and no other row remains.
C13_ContainersConverge ==
    (Compiled /\ role = Master) =>
        \A v \in Rows(container)
                    \cup {DesiredRow(d) : d \in Range(spec.containers)} :
            Cardinality({id \in DOMAIN container : container[id] = v})
                = Cardinality({i \in DOMAIN spec.containers :
                                  DesiredRow(spec.containers[i]) = v})

\* A Master call that removed a row and left two rows of equal content.
C13_Witness ==
    /\ Compiled /\ role = Master
    /\ Rem("container") # {}
    /\ \E i, j \in DOMAIN container : i # j /\ container[i] = container[j]

\* The Image, Command and Env of a container.
Content(x) == [Image |-> x.Image, Command |-> x.Command, Env |-> x.Env]

\* The rows the call found and the declarations of the spec in the class c.
Existing(c) == {r \in DOMAIN pre.container : Content(pre.container[r]) = c}
Wanted(c) == {i \in DOMAIN spec.containers : Content(spec.containers[i]) = c}

\* n - m, or 0 when m exceeds n.
Monus(n, m) == IF n > m THEN n - m ELSE 0

\* C14: in a Master call, for every (Image, Command, Env) class, the rows
\* removed number max(0, existing - desired), the rows inserted number
\* max(0, desired - existing) and the pairs number the lesser of the two, so
\* no class sees both a remove and an insert.
C14_MinimalChurn ==
    (Compiled /\ role = Master) =>
        \A c \in {Content(x) : x \in Rows(pre.container)}
                    \cup {Content(d) : d \in Range(spec.containers)} :
            LET e == Cardinality(Existing(c))
                w == Cardinality(Wanted(c))
            IN  /\ Cardinality(Existing(c) \cap Rem("container")) = Monus(e, w)
                /\ Cardinality({id \in Ins("container") :
                        id \in DOMAIN container /\ Content(container[id]) = c})
                      = Monus(w, e)
                /\ Cardinality({m \in matched : Content(m[2]) = c})
                      = e - Monus(e, w)

\* A Master call that found more rows of a class than the spec declares,
\* paired some and removed the rest.
C14_Witness ==
    /\ Compiled /\ role = Master
    /\ \E r \in DOMAIN pre.container :
          LET c == Content(pre.container[r])
          IN  /\ Cardinality(Existing(c)) > Cardinality(Wanted(c))
              /\ Wanted(c) # {}
              /\ Existing(c) \cap Rem("container") # {}
              /\ \E m \in matched : Content(m[2]) = c

\* The edit distance between the Labels of the desired container i, as
\* queryContainers merged them, and the Labels of the row r.
LabelCost(i, r) == EditDistance(queried[i].Labels, pre.container[r].Labels)

\* The pairings of desired containers with rows of the same content.
Pairings ==
    {M \in SUBSET {p \in (DOMAIN queried) \X (DOMAIN pre.container) :
                      Content(queried[p[1]]) = Content(pre.container[p[2]])} :
        OneToOne(M)}

RECURSIVE PairingCost(_)
\* The summed label cost of a pairing.
PairingCost(M) ==
    IF M = {} THEN 0
    ELSE LET p == CHOOSE p \in M : TRUE
         IN  LabelCost(p[1], p[2]) + PairingCost(M \ {p})

RECURSIVE UsedCost(_)
\* The summed label cost of the pairs the call made.
UsedCost(ms) ==
    IF ms = {} THEN 0
    ELSE LET m == CHOOSE m \in ms : TRUE
         IN  EditDistance(m[2].Labels, pre.container[m[1]].Labels)
                 + UsedCost(ms \ {m})

RECURSIVE GreedyCost(_, _)
\* The summed label cost of pairing the desired containers i, i + 1, ... in
\* their order, each with the nearest row of its content still free.
GreedyCost(i, free) ==
    IF i > Len(queried) THEN 0
    ELSE LET cand == {r \in free :
                         Content(queried[i]) = Content(pre.container[r])}
         IN  IF cand = {} THEN GreedyCost(i + 1, free)
             ELSE LET r == CHOOSE r \in cand :
                             \A q \in cand : LabelCost(i, r) <= LabelCost(i, q)
                  IN  LabelCost(i, r) + GreedyCost(i + 1, free \ {r})

\* C15: the pairing a Master call uses has the most pairs any pairing of
\* desired containers with rows of the same content has and, among the
\* pairings with that many pairs, the least summed edit distance between the
\* paired Label sequences (the desired one as the label merge produced it).
C15_MinimumLabelCost ==
    (Compiled /\ role = Master) =>
        \A M \in Pairings :
            /\ Cardinality(M) <= Cardinality(matched)
            /\ Cardinality(M) = Cardinality(matched) =>
                  UsedCost(matched) <= PairingCost(M)

\* A Master call whose pairing costs less than the nearest-first pairing in
\* input order.
C15_Witness ==
    /\ Compiled /\ role = Master
    /\ Cardinality(matched) > 1
    /\ UsedCost(matched) < GreedyCost(1, DOMAIN pre.container)

\* C16: every container row a Master call commits, paired or new, has its
\* Labels in lexicographic order, and so has every row of the table after
\* the call, whatever order the label merge produced.
C16_LabelsSorted ==
    (Compiled /\ role = Master) =>
        /\ \A id \in Com("container") :
              id \in DOMAIN container /\ IsSorted(container[id].Labels)
        /\ \A id \in DOMAIN container : IsSorted(container[id].Labels)

\* A Master call that paired a row and inserted one, the label merge having
\* produced an unsorted sequence for each.
C16_Witness ==
    /\ Compiled /\ role = Master
    /\ \E m \in matched : ~IsSorted(m[2].Labels) /\ m[1] \in Com("container")
    /\ \E id \in Ins("container") \cap Com("container") :
          \E i \in DOMAIN queried :
              /\ ~IsSorted(queried[i].Labels)
              /\ container[id] = CommittedContainer(queried[i])
              /\ \A m \in matched : m[2] # queried[i]

\* C17: a container row that is there before and after a Master call has the
\* Image, Command and Env it had; only its Labels may differ.
C17_SurvivorKeepsContent ==
    (Compiled /\ role = Master) =>
        \A id \in DOMAIN pre.container \cap DOMAIN container :
            /\ container[id].Image = pre.container[id].Image
            /\ container[id].Command = pre.container[id].Command
            /\ container[id].Env = pre.container[id].Env

\* A Master call after which a row survives with other Labels, next to a
\* desired container that differs from the row in Env only.
C17_Witness ==
    /\ Compiled /\ role = Master
    /\ \E id \in DOMAIN pre.container \cap DOMAIN container :
          container[id].Labels # pre.container[id].Labels
    /\ \E r \in Rem("container"), d \in Range(spec.containers) :
          /\ pre.container[r].Image = d.Image
          /\ pre.container[r].Command = d.Command
          /\ pre.container[r].Env # d.Env

\* The rows of the container table the call found, as the view d has them.
Survivors(d) ==
    [id \in DOMAIN d.container \cap DOMAIN pre.container |-> d.container[id]]

\* What the container reconciler may leave of the rows the last call found,
\* under each iteration order of the label map and of the containers map.
OutcomesByOrder ==
    LET stitch == Compile(spec).stitch
        db     == [View EXCEPT !.container = pre.container]
    IN  {{Survivors(d) :
             d \in ReconcileContainers(db, queryContainers(stitch, lo, io))} :
            lo \in Perms(LabelKeys(stitch)), io \in Perms(DeclaredIDs(stitch))}

\* C18: the tables a call ends with depend on the starting view, the role
\* and the spec only: for the rows a Master call found there is one outcome
\* that the container reconciler reaches under every iteration order of the
\* label map and of the containers map.
C18_Deterministic ==
    (Compiled /\ role = Master /\ outcome = "done") =>
        \E T \in UNION OutcomesByOrder : \A O \in OutcomesByOrder : T \in O

====
